---- MODULE Spec2Model ----
(***************************************************************************)
(* Risk-assessment pipeline of the supply-chain risk predictor:            *)
(* Predictor (predictor.py) driving FalconLLM (falcon_llm.py).             *)
(*                                                                         *)
(* Python strings are modelled as sequences of one-character strings, so   *)
(* that splitting, stripping and the regular-expression scans of the reply *)
(* parsers are computed character by character, as the code computes them. *)
(***************************************************************************)
EXTENDS Integers, Sequences, FiniteSets, TLC

VARIABLES
    pc,                \* position of the current call
    historical_data,   \* predict_risk argument: the processed dataset
    news_data,         \* predict_risk argument: the headlines
    historical_risk,   \* result of _analyze_historical_data
    all_risks,         \* _analyze_news_data local
    risk_levels,       \* _analyze_news_data local
    insights,          \* _analyze_news_data local
    analyses,          \* what analyze_news returned per article (with a
                       \* stubbed llm: what it is set to return)
    news_risk,         \* result of _analyze_news_data
    combined_data,     \* argument of generate_risk_assessment
    final_assessment,  \* result of generate_risk_assessment
    report,            \* value returned by predict_risk
    err,               \* exception that left the call, or NoValue
    requests,          \* chat-completion requests sent so far, in order
    inflight,          \* the request awaiting its completion, or NoValue
    outcomes,          \* what the service did with each request, in order
    returned           \* what _get_llm_response returned for each request

vars == <<pc, historical_data, news_data, historical_risk, all_risks,
          risk_levels, insights, analyses, news_risk, combined_data,
          final_assessment, report, err, requests, inflight, outcomes,
          returned>>

NoValue == "<none>"

(***************************************************************************)
(* Characters and strings                                                  *)
(***************************************************************************)
LowerSeq == <<"a","b","c","d","e","f","g","h","i","j","k","l","m",
              "n","o","p","q","r","s","t","u","v","w","x","y","z">>
UpperSeq == <<"A","B","C","D","E","F","G","H","I","J","K","L","M",
              "N","O","P","Q","R","S","T","U","V","W","X","Y","Z">>

Range(f) == {f[k] : k \in DOMAIN f}

\* [a-z]
LowerChars == Range(LowerSeq)
UpperChars == Range(UpperSeq)
\* \d
DigitChars == {"0","1","2","3","4","5","6","7","8","9"}
\* \w
WordChars  == LowerChars \cup UpperChars \cup DigitChars \cup {"_"}
\* \s, and what str.strip() removes
SpaceChars == {" ", "\n", "\t", "\r"}

\* case folding of re.IGNORECASE
Fold(c) ==
    IF c \in UpperChars
    THEN LowerSeq[CHOOSE k \in DOMAIN UpperSeq : UpperSeq[k] = c]
    ELSE c

\* first position q >= p at which s leaves the class cls (Len(s)+1 at the end):
\* the extent of a greedy cls* started at p
SpanEnd(s, p, cls) ==
    CHOOSE q \in p..(Len(s) + 1) :
        /\ \A k \in p..(q - 1) : s[k] \in cls
        /\ (q = Len(s) + 1 \/ s[q] \notin cls)

\* the literal lit stands at position p of s (case-insensitively when ic)
MatchLit(s, p, lit, ic) ==
    /\ p + Len(lit) - 1 <= Len(s)
    /\ \A k \in 1..Len(lit) :
          IF ic THEN Fold(s[p + k - 1]) = Fold(lit[k])
                ELSE s[p + k - 1] = lit[k]

\* str.strip()
Strip(s) ==
    LET keep == {k \in 1..Len(s) : s[k] \notin SpaceChars}
    IN  IF keep = {} THEN <<>>
        ELSE SubSeq(s, CHOOSE a \in keep : \A k \in keep : a <= k,
                       CHOOSE b \in keep : \A k \in keep : b >= k)

\* str.split('\n'): always at least one piece
RECURSIVE SplitFrom(_, _)
SplitFrom(s, p) ==
    LET nl == {k \in p..Len(s) : s[k] = "\n"}
    IN  IF nl = {} THEN <<SubSeq(s, p, Len(s))>>
        ELSE LET q == CHOOSE k \in nl : \A j \in nl : k <= j
             IN  <<SubSeq(s, p, q - 1)>> \o SplitFrom(s, q + 1)

SplitLines(s) == SplitFrom(s, 1)

\* str.startswith
StartsWith(s, prefix) == MatchLit(s, 1, prefix, FALSE)

\* ', '.join(items)
RECURSIVE JoinComma(_)
JoinComma(items) ==
    IF items = <<>> THEN <<>>
    ELSE IF Len(items) = 1 THEN items[1]
    ELSE items[1] \o <<",", " ">> \o JoinComma(Tail(items))

\* the elements of a sequence
Elems(seq) == {seq[k] : k \in DOMAIN seq}

\* a sequence has no element twice
NoDup(seq) == \A a, b \in DOMAIN seq : seq[a] = seq[b] => a = b

\* variant: the list is passed on as it is, duplicates kept
DedupOrdersKeep(xs) == {xs}

\* the orders list(set(xs)) may produce: every listing of the distinct elements
DedupOrders(xs) ==
    {o \in [1..Cardinality(Elems(xs)) -> Elems(xs)] : Elems(o) = Elems(xs)}

(***************************************************************************)
(* String constants of the code                                            *)
(***************************************************************************)
Low    == <<"L","o","w">>
Medium == <<"M","e","d","i","u","m">>
High   == <<"H","i","g","h">>

FrequentDelays == <<"f","r","e","q","u","e","n","t"," ","d","e","l","a","y","s">>
QuantityDiscrepancies ==
    <<"q","u","a","n","t","i","t","y"," ",
      "d","i","s","c","r","e","p","a","n","c","i","e","s">>

OverallLabel == <<"O","v","e","r","a","l","l"," ","R","i","s","k"," ",
                  "L","e","v","e","l">>
ExplanationLabel == <<"B","r","i","e","f"," ",
                      "E","x","p","l","a","n","a","t","i","o","n">>

(***************************************************************************)
(* FalconLLM: reply parsers                                                *)
(***************************************************************************)
Min(S) == CHOOSE a \in S : \A b \in S : a <= b

\* analyze_news: the stripped lines of the reply that start with '-'
RECURSIVE BulletLines(_)
BulletLines(lines) ==
    IF lines = <<>> THEN <<>>
    ELSE (IF StartsWith(Strip(lines[1]), <<"-">>)
          THEN <<Strip(lines[1])>> ELSE <<>>) \o BulletLines(Tail(lines))

\* variant: the default per-item level is Low
ParseNewsAnalysisLow(analysis) ==
    [detected_risks   |-> BulletLines(SplitLines(analysis)),
     risk_level       |-> Low,
     potential_impact |-> analysis]

\* variant: startswith is applied to the line as it is, not stripped
ParseNewsAnalysisUnstripped(analysis) ==
    LET lines == SplitLines(analysis)
        kept  == {k \in DOMAIN lines : StartsWith(lines[k], <<"-">>)}
        pick[k \in 0..Len(lines)] ==
            IF k = 0 THEN <<>>
            ELSE pick[k - 1] \o (IF k \in kept THEN <<Strip(lines[k])>> ELSE <<>>)
    IN  [detected_risks   |-> pick[Len(lines)],
         risk_level       |-> Medium,
         potential_impact |-> analysis]

\* analyze_news, after the reply has come back
ParseNewsAnalysis(analysis) ==
    [detected_risks   |-> BulletLines(SplitLines(analysis)),
     risk_level       |-> Medium,
     potential_impact |-> analysis]

\* r"Overall Risk Level:?\s*(\w+)" tried at position i: the extent <<c, e>> of
\* group 1, or <<0, 0>> when the pattern does not match there
OverallMatchAt(s, i) ==
    IF ~MatchLit(s, i, OverallLabel, TRUE) THEN <<0, 0>>
    ELSE LET a == i + Len(OverallLabel)
             b == IF a <= Len(s) /\ s[a] = ":" THEN a + 1 ELSE a
             c == SpanEnd(s, b, SpaceChars)
             e == SpanEnd(s, c, WordChars)
         IN  IF e > c THEN <<c, e>> ELSE <<0, 0>>

\* variant: the default of lines 77-78 ("Unknown") used for the level
OverallRiskLevelUnknown(assessment) ==
    LET hits == {i \in 1..Len(assessment) :
                    OverallMatchAt(assessment, i) # <<0, 0>>}
    IN  IF hits = {} THEN <<"U","n","k","n","o","w","n">>
        ELSE LET m == OverallMatchAt(assessment, Min(hits))
             IN  SubSeq(assessment, m[1], m[2] - 1)

\* re.search(...) and the default of line 108
OverallRiskLevel(assessment) ==
    LET hits == {i \in 1..Len(assessment) :
                    OverallMatchAt(assessment, i) # <<0, 0>>}
    IN  IF hits = {} THEN Medium
        ELSE LET m == OverallMatchAt(assessment, Min(hits))
             IN  SubSeq(assessment, m[1], m[2] - 1)

\* the lookahead (?=\n\d+\.|\Z) at position p
LookNumbered(s, p) ==
    \/ p = Len(s) + 1
    \/ /\ s[p] = "\n"
       /\ LET e == SpanEnd(s, p + 1, DigitChars)
          IN  e > p + 1 /\ e <= Len(s) /\ s[e] = "."

\* the lookahead (?=\n[a-z]\)|\Z) at position p
LookLettered(s, p) ==
    \/ p = Len(s) + 1
    \/ /\ s[p] = "\n"
       /\ p + 2 <= Len(s)
       /\ s[p + 1] \in LowerChars
       /\ s[p + 2] = ")"

\* where the lazy (.*?) started at q stops: the first lookahead position
LazyEndNumbered(s, q) == Min({p \in q..(Len(s) + 1) : LookNumbered(s, p)})
LazyEndLettered(s, q) == Min({p \in q..(Len(s) + 1) : LookLettered(s, p)})

\* r"Brief Explanation[:\n]+" tried at i: the position after it, or 0
ExplanationHeadEnd(s, i) ==
    IF ~MatchLit(s, i, ExplanationLabel, TRUE) THEN 0
    ELSE LET a == i + Len(ExplanationLabel)
             r == SpanEnd(s, a, {":", "\n"})
         IN  IF r > a THEN r ELSE 0

\* lines 110-111
Explanation(assessment) ==
    LET hits == {i \in 1..Len(assessment) :
                    ExplanationHeadEnd(assessment, i) # 0}
    IN  IF hits = {} THEN <<>>
        ELSE LET r == ExplanationHeadEnd(assessment, Min(hits))
             IN  Strip(SubSeq(assessment, r,
                              LazyEndNumbered(assessment, r) - 1))

\* r"\d+\." tried at i: the position after it, or 0
NumberedMarkerEnd(s, i) ==
    IF s[i] \notin DigitChars THEN 0
    ELSE LET e == SpanEnd(s, i, DigitChars)
         IN  IF e <= Len(s) /\ s[e] = "." THEN e + 1 ELSE 0

\* r"[a-z]\)" tried at i: the position after it, or 0
LetteredMarkerEnd(s, i) ==
    IF s[i] \in LowerChars /\ i + 1 <= Len(s) /\ s[i + 1] = ")"
    THEN i + 2 ELSE 0

\* re.findall(r"\d+\.\s*(.*?)(?=\n\d+\.|\Z)", s, re.DOTALL) from position pos
RECURSIVE FindNumberedFrom(_, _)
FindNumberedFrom(s, pos) ==
    LET starts == {i \in pos..Len(s) : NumberedMarkerEnd(s, i) # 0}
    IN  IF starts = {} THEN <<>>
        ELSE LET q == SpanEnd(s, NumberedMarkerEnd(s, Min(starts)), SpaceChars)
                 p == LazyEndNumbered(s, q)
             IN  <<SubSeq(s, q, p - 1)>> \o FindNumberedFrom(s, p)

\* re.findall(r"[a-z]\)\s*(.*?)(?=\n[a-z]\)|\Z)", s, re.DOTALL) from pos
RECURSIVE FindLetteredFrom(_, _)
FindLetteredFrom(s, pos) ==
    LET starts == {i \in pos..Len(s) : LetteredMarkerEnd(s, i) # 0}
    IN  IF starts = {} THEN <<>>
        ELSE LET q == SpanEnd(s, LetteredMarkerEnd(s, Min(starts)), SpaceChars)
                 p == LazyEndLettered(s, q)
             IN  <<SubSeq(s, q, p - 1)>> \o FindLetteredFrom(s, p)

\* generate_risk_assessment, after the reply has come back
ParseAssessment(assessment) ==
    [overall_risk_level |-> OverallRiskLevel(assessment),
     assessment         |-> Explanation(assessment),
     risk_factors       |-> FindNumberedFrom(assessment, 1),
     recommendations    |-> FindLetteredFrom(assessment, 1)]

(***************************************************************************)
(* Call results: a Python call either returns a value or raises            *)
(***************************************************************************)
Return(v) == [raised |-> FALSE, value |-> v]
Raise(e)  == [raised |-> TRUE, error |-> e]

\* None
None == [none |-> TRUE]

(***************************************************************************)
(* Number formatting                                                       *)
(***************************************************************************)
DigitSeq == <<"0","1","2","3","4","5","6","7","8","9">>

\* str(n), n >= 0
RECURSIVE IntToStr(_)
IntToStr(n) ==
    IF n < 10 THEN <<DigitSeq[n + 1]>>
    ELSE IntToStr(n \div 10) \o <<DigitSeq[(n % 10) + 1]>>

\* num/den rounded to an integer, ties to even.  Python rounds the binary
\* double; for fewer than 40 rows every tie of the rates formatted here is a
\* dyadic rational, which the double holds exactly.
RoundHalfEven(num, den) ==
    LET q == num \div den
        r == num % den
    IN  IF 2 * r < den THEN q
        ELSE IF 2 * r > den THEN q + 1
        ELSE IF q % 2 = 0 THEN q ELSE q + 1

\* f"{num/den:.2f}", num/den >= 0
FormatFixed2(num, den) ==
    LET h == RoundHalfEven(100 * num, den)
    IN  IntToStr(h \div 100) \o <<".">>
        \o <<DigitSeq[((h % 100) \div 10) + 1], DigitSeq[(h % 10) + 1]>>

\* f"{num/den:.2%}"
FormatPercent2(num, den) == FormatFixed2(100 * num, den) \o <<"%">>

(***************************************************************************)
(* Predictor._analyze_historical_data                                      *)
(* A dataset is the sequence of its rows, with the four columns read.      *)
(***************************************************************************)
\* number of rows satisfying a column test: the numerator of .mean()
CountDelayed(data)    == Cardinality({k \in DOMAIN data : data[k].Is_Delayed = 1})
CountDiscrepant(data) ==
    Cardinality({k \in DOMAIN data : data[k].Quantity_Difference # 0})

\* data['Transportation_Mode'].mode().iloc[0]: the most frequent value, the
\* smallest of them on a tie (mode() returns the modes sorted)
ModeOfTransport(data) ==
    LET vals == {data[k].Transportation_Mode : k \in DOMAIN data}
        cnt(v) == Cardinality({k \in DOMAIN data :
                                  data[k].Transportation_Mode = v})
    IN  Min({v \in vals : \A w \in vals : cnt(v) >= cnt(w)})

RECURSIVE SumPSI(_)
SumPSI(data) ==
    IF data = <<>> THEN 0
    ELSE data[1].Political_Stability_Index + SumPSI(Tail(data))

\* variant: the thresholds compared with >= instead of >
HistoricalRiskLevelInclusive(data) ==
    LET d == CountDelayed(data)
        n == Len(data)
    IN  IF 5 * d >= n THEN High
        ELSE IF 10 * d >= n THEN Medium
        ELSE Low

\* lines 56-61: delay_rate > 0.2 -> High, > 0.1 -> Medium, else Low
\* (delay_rate = d/n; d/n > 1/5 iff 5d > n, d/n > 1/10 iff 10d > n)
HistoricalRiskLevel(data) ==
    LET d == CountDelayed(data)
        n == Len(data)
    IN  IF 5 * d > n THEN High
        ELSE IF 10 * d > n THEN Medium
        ELSE Low

\* lines 64-68
HistoricalRiskFactors(data) ==
    (IF 10 * CountDelayed(data) > Len(data)
     THEN <<FrequentDelays>> ELSE <<>>)
    \o (IF 10 * CountDiscrepant(data) > Len(data)
        THEN <<QuantityDiscrepancies>> ELSE <<>>)

DelayRateLabel ==
    <<"H","i","s","t","o","r","i","c","a","l"," ","d","e","l","a","y",
      " ","r","a","t","e",":"," ">>
DiscrepancyRateLabel ==
    <<"Q","u","a","n","t","i","t","y"," ","d","i","s","c","r","e","p",
      "a","n","c","y"," ","r","a","t","e",":"," ">>
TransportModeLabel ==
    <<"M","o","s","t"," ","c","o","m","m","o","n"," ","t","r","a","n",
      "s","p","o","r","t","a","t","i","o","n"," ","m","o","d","e",":",
      " ">>
StabilityLabel ==
    <<"A","v","e","r","a","g","e"," ","p","o","l","i","t","i","c","a",
      "l"," ","s","t","a","b","i","l","i","t","y"," ","i","n","d","e",
      "x",":"," ">>

\* variant: the rates formatted as fractions, not scaled to per cent
HistoricalInsightsUnscaled(data) ==
    <<DelayRateLabel \o FormatFixed2(CountDelayed(data), Len(data)) \o <<"%">>,
      DiscrepancyRateLabel
         \o FormatFixed2(CountDiscrepant(data), Len(data)) \o <<"%">>,
      TransportModeLabel \o IntToStr(ModeOfTransport(data)),
      StabilityLabel \o FormatFixed2(SumPSI(data), Len(data))>>

\* lines 71-76
HistoricalInsights(data) ==
    <<DelayRateLabel \o FormatPercent2(CountDelayed(data), Len(data)),
      DiscrepancyRateLabel \o FormatPercent2(CountDiscrepant(data), Len(data)),
      TransportModeLabel \o IntToStr(ModeOfTransport(data)),
      StabilityLabel \o FormatFixed2(SumPSI(data), Len(data))>>

\* _analyze_historical_data on a non-empty dataset
AnalyzeHistoricalData(data) ==
    [risk_level   |-> HistoricalRiskLevel(data),
     risk_factors |-> HistoricalRiskFactors(data),
     insights     |-> HistoricalInsights(data)]

(***************************************************************************)
(* Predictor._analyze_news_data                                            *)
(***************************************************************************)
\* variant: the levels numbered from 0
RiskLevelOfZeroBased(level) ==
    CASE level = Low    -> 0
      [] level = Medium -> 1
      [] level = High   -> 2

\* self.risk_levels (line 8)
RiskLevelKeys == {Low, Medium, High}
RiskLevelOf(level) ==
    CASE level = Low    -> 1
      [] level = Medium -> 2
      [] level = High   -> 3

\* variant: the insight is put in front instead of appended
AccumulatePrepend(acc, analysis) ==
    [all_risks   |-> acc.all_risks \o analysis.detected_risks,
     risk_levels |-> Append(acc.risk_levels, RiskLevelOf(analysis.risk_level)),
     insights    |-> <<analysis.potential_impact>> \o acc.insights]

\* lines 100-102: one pass of the loop body on the locals
Accumulate(acc, analysis) ==
    [all_risks   |-> acc.all_risks \o analysis.detected_risks,
     risk_levels |-> Append(acc.risk_levels, RiskLevelOf(analysis.risk_level)),
     insights    |-> Append(acc.insights, analysis.potential_impact)]

RECURSIVE SumSeq(_)
SumSeq(xs) == IF xs = <<>> THEN 0 ELSE xs[1] + SumSeq(Tail(xs))

\* variant: the thresholds compared with >= instead of >
NewsRiskLevelInclusive(levels) ==
    LET total == SumSeq(levels)
        n     == Len(levels)
    IN  IF total >= 2 * n THEN High
        ELSE IF 2 * total >= 3 * n THEN Medium
        ELSE Low

\* lines 105-111 on a non-empty list: avg = sum/len; avg > 2 -> High,
\* avg > 1.5 -> Medium, else Low (sum/len > 2 iff sum > 2 len,
\* sum/len > 3/2 iff 2 sum > 3 len)
NewsRiskLevel(levels) ==
    LET total == SumSeq(levels)
        n     == Len(levels)
    IN  IF total > 2 * n THEN High
        ELSE IF 2 * total > 3 * n THEN Medium
        ELSE Low

\* lines 105-117: the values _analyze_news_data may return for the locals
\* (one per order of list(set(all_risks))), or the exception of line 105
NewsSignals(acc) ==
    IF Len(acc.risk_levels) = 0 THEN {Raise("ZeroDivisionError")}
    ELSE {Return([risk_level     |-> NewsRiskLevel(acc.risk_levels),
                  detected_risks |-> o,
                  insights       |-> acc.insights]) :
            o \in DedupOrders(acc.all_risks)}

(***************************************************************************)
(* FalconLLM: requests and the adapter                                     *)
(***************************************************************************)
ModelName == "tiiuae/falcon-11b"

\* analyze_news, lines 49-52
NewsMessages(news) ==
    <<[role |-> "system", content |-> [template |-> "news_analyst"]],
      [role |-> "user",
       content |-> [template |-> "analyze_article", news |-> news]]>>

\* generate_risk_assessment, lines 77-100
AssessmentMessages(data) ==
    <<[role |-> "system", content |-> [template |-> "risk_assessor"]],
      [role |-> "user",
       content |-> [template        |-> "assessment",
                    historical_risk |-> data.historical_risk,
                    news_risk       |-> data.news_risk,
                    detected_risks  |-> JoinComma(data.detected_risks)]]>>

\* client.chat.completions.create(model=..., messages=...)
ChatRequest(messages) == [model |-> ModelName, messages |-> messages]

\* what the service may do with a request: complete it with a reply text, or
\* fail (transport, authentication, API status)
ServiceFailures ==
    {"APIConnectionError", "AuthenticationError", "APIStatusError"}
ServiceOutcomes(replies) ==
    {[ok |-> TRUE, content |-> r] : r \in replies}
    \cup {[ok |-> FALSE, error |-> e] : e \in ServiceFailures}

\* variant: the failure is not caught
GetLLMResponseReraise(outcome) ==
    IF outcome.ok THEN Return(outcome.content) ELSE Raise(outcome.error)

\* _get_llm_response, lines 29-37
GetLLMResponse(outcome) ==
    IF outcome.ok THEN Return(outcome.content) ELSE Return(<<>>)

(***************************************************************************)
(* Predictor.predict_risk                                                  *)
(***************************************************************************)
\* lines 24-28
CombinedData(hist, news) ==
    [historical_risk |-> hist.risk_level,
     news_risk       |-> news.risk_level,
     detected_risks  |-> news.detected_risks \o hist.risk_factors]

\* lines 32-39: the reports predict_risk may return (one per order of
\* list(set(risk_factors)))
Reports(fa, hist, news) ==
    {[overall_risk_level  |-> fa.overall_risk_level,
      risk_factors        |-> o,
      assessment          |-> fa.assessment,
      recommendations     |-> fa.recommendations,
      historical_insights |-> hist.insights,
      news_insights       |-> news.insights] :
        o \in DedupOrders(fa.risk_factors)}

(***************************************************************************)
(* Inputs                                                                  *)
(***************************************************************************)
\* DataLoader.mock_news_data
MockNews == <<
    <<"S","e","v","e","r","e"," ","f","l","o","o","d","i","n","g"," ","i",
      "n"," ","T","a","i","w","a","n"," ","d","i","s","r","u","p","t","s",
      " ","s","e","m","i","c","o","n","d","u","c","t","o","r"," ","p","r",
      "o","d","u","c","t","i","o","n">>,
    <<"T","r","a","d","e"," ","t","e","n","s","i","o","n","s"," ","e","s",
      "c","a","l","a","t","e"," ","b","e","t","w","e","e","n"," ","C","h",
      "i","n","a"," ","a","n","d"," ","t","h","e"," ","U","n","i","t","e",
      "d"," ","S","t","a","t","e","s">>,
    <<"M","a","j","o","r"," ","c","y","b","e","r","a","t","t","a","c","k",
      " ","t","a","r","g","e","t","s"," ","g","l","o","b","a","l"," ","s",
      "h","i","p","p","i","n","g"," ","c","o","m","p","a","n","i","e","s">>,
    <<"L","a","b","o","r"," ","s","t","r","i","k","e","s"," ","a","t"," ",
      "k","e","y"," ","E","u","r","o","p","e","a","n"," ","p","o","r","t",
      "s"," ","c","a","u","s","e"," ","s","h","i","p","m","e","n","t"," ",
      "d","e","l","a","y","s">>,
    <<"U","n","e","x","p","e","c","t","e","d"," ","s","u","r","g","e"," ",
      "i","n"," ","o","i","l"," ","p","r","i","c","e","s"," ","i","m","p",
      "a","c","t","s"," ","g","l","o","b","a","l"," ","t","r","a","n","s",
      "p","o","r","t","a","t","i","o","n"," ","c","o","s","t","s">>
>>

\* rows of a processed dataset: on time and complete; delayed; short delivery
OnTimeRow  == [Is_Delayed |-> 0, Quantity_Difference |-> 0,
               Transportation_Mode |-> 0, Political_Stability_Index |-> 80]
DelayedRow == [Is_Delayed |-> 1, Quantity_Difference |-> 0,
               Transportation_Mode |-> 1, Political_Stability_Index |-> 60]
ShortRow   == [Is_Delayed |-> 0, Quantity_Difference |-> 5,
               Transportation_Mode |-> 1, Political_Stability_Index |-> 65]
RowKinds   == <<OnTimeRow, DelayedRow, ShortRow>>

Rep(x, a) == [k \in 1..a |-> x]

\* the datasets of exactly n rows drawn from kinds, rows of a kind together:
\* the analysis reads the columns only through counts, sums and the mode, so
\* one order per multiset of rows covers every order
RECURSIVE RowsOf(_, _)
RowsOf(kinds, n) ==
    IF n = 0 THEN {<<>>}
    ELSE IF kinds = <<>> THEN {}
    ELSE UNION {{Rep(kinds[1], a) \o rest : rest \in RowsOf(Tail(kinds), n - a)} :
                  a \in 0..n}

Datasets(maxRows) == UNION {RowsOf(RowKinds, n) : n \in 0..maxRows}

\* bounds
MaxRecords     == 10
MaxPipeRecords == 4
MaxNews        == 2
MaxItems       == 4
MaxFragments   == 3

\* reply texts of the per-article analysis
NewsReplies == {
    <<"a"," ","-","b">>,
    <<"-"," ","a">>,
    <<"x","\n"," ","-"," ","a"," ","\n","-"," ","b">>
}

\* reply texts of the final assessment
AssessmentReplies == {
    <<"O","v","e","r","a","l","l"," ","R","i","s","k"," ","L","e","v","e",
      "l",":"," ","H","i","g","h","\n","B","r","i","e","f"," ","E","x",
      "p","l","a","n","a","t","i","o","n",":","\n","x","\n","1","."," ",
      "r","\n","2","."," ","s","\n","a",")"," ","m","\n","b",")"," ","n">>,
    <<"O","v","e","r","a","l","l"," ","R","i","s","k"," ","L","e","v","e",
      "l",":"," ","M","o","d","e","r","a","t","e">>,
    <<"1","."," ","r","\n","2","."," ","r">>,
    <<"R","i","s","k"," ","i","s"," ","l","o","w">>
}

\* pieces from which the replies of the stand-alone assessment are built
Fragments == {
    <<"O","v","e","r","a","l","l"," ","R","i","s","k"," ","L","e","v","e",
      "l">>,
    <<":">>,
    <<" ">>,
    <<"\n">>,
    <<"H","i","g","h">>,
    <<"B","r","i","e","f"," ","E","x","p","l","a","n","a","t","i","o","n">>,
    <<"1",".">>,
    <<"a",")">>
}

RECURSIVE FragmentTexts(_)
FragmentTexts(n) ==
    IF n = 0 THEN {<<>>}
    ELSE FragmentTexts(n - 1)
         \cup {t \o f : t \in FragmentTexts(n - 1), f \in Fragments}

\* exceptions of _analyze_historical_data on an empty frame: a frame without
\* columns fails at line 52, one with columns at line 74
EmptyFrameErrors == {"KeyError", "IndexError"}

(***************************************************************************)
(* State                                                                   *)
(***************************************************************************)
Idle ==
    /\ historical_risk = None
    /\ all_risks = <<>>
    /\ risk_levels = <<>>
    /\ insights = <<>>
    /\ analyses = <<>>
    /\ news_risk = None
    /\ combined_data = None
    /\ final_assessment = None
    /\ report = None
    /\ err = NoValue
    /\ requests = <<>>
    /\ inflight = None
    /\ outcomes = <<>>
    /\ returned = <<>>

\* predict_risk(historical_data, news_data) is called
Init ==
    /\ pc = "start"
    /\ historical_data \in Datasets(MaxPipeRecords)
    /\ news_data \in {SubSeq(MockNews, 1, n) : n \in 0..MaxNews}
    /\ Idle

Locals == [all_risks |-> all_risks, risk_levels |-> risk_levels,
           insights |-> insights]

(***************************************************************************)
(* Steps                                                                   *)
(***************************************************************************)
\* _analyze_historical_data(historical_data) runs and control moves to `to`
HistoricalStep(from, to) ==
    /\ pc = from
    /\ IF historical_data = <<>>
       THEN /\ err' \in EmptyFrameErrors
            /\ pc' = "failed"
            /\ UNCHANGED historical_risk
       ELSE /\ historical_risk' = AnalyzeHistoricalData(historical_data)
            /\ pc' = to
            /\ UNCHANGED err
    /\ UNCHANGED <<historical_data, news_data, all_risks, risk_levels,
                   insights, analyses, news_risk, combined_data,
                   final_assessment, report, requests, inflight, outcomes,
                   returned>>

\* predict_risk, line 21
PredictStart == HistoricalStep("start", "news")

\* the loop of line 98 takes the next article; analyze_news builds the
\* messages and the adapter sends the request (lines 49-54, 30-33)
SendNewsRequest ==
    /\ pc = "news"
    /\ Len(insights) < Len(news_data)
    /\ LET req == ChatRequest(NewsMessages(news_data[Len(insights) + 1]))
       IN  /\ requests' = Append(requests, req)
           /\ inflight' = req
    /\ pc' = "news_wait"
    /\ UNCHANGED <<historical_data, news_data, historical_risk, all_risks,
                   risk_levels, insights, analyses, news_risk, combined_data,
                   final_assessment, report, err, outcomes, returned>>

\* the request completes; the adapter returns (lines 34-37), analyze_news
\* parses the reply (lines 57-65) and the loop body ends (lines 100-102)
NewsReply(replies) ==
    /\ pc = "news_wait"
    /\ \E o \in ServiceOutcomes(replies) :
         LET r == GetLLMResponse(o)
         IN  /\ outcomes' = Append(outcomes, o)
             /\ returned' = Append(returned, r)
             /\ inflight' = None
             /\ IF r.raised
                THEN /\ err' = r.error
                     /\ pc' = "failed"
                     /\ UNCHANGED <<all_risks, risk_levels, insights, analyses>>
                ELSE LET analysis == ParseNewsAnalysis(r.value)
                     IN  IF analysis.risk_level \notin RiskLevelKeys
                         THEN /\ err' = "KeyError"
                              /\ pc' = "failed"
                              /\ analyses' = Append(analyses, analysis)
                              /\ all_risks' =
                                    all_risks \o analysis.detected_risks
                              /\ UNCHANGED <<risk_levels, insights>>
                         ELSE LET acc == Accumulate(Locals, analysis)
                              IN  /\ analyses' = Append(analyses, analysis)
                                  /\ all_risks' = acc.all_risks
                                  /\ risk_levels' = acc.risk_levels
                                  /\ insights' = acc.insights
                                  /\ pc' = "news"
                                  /\ UNCHANGED err
    /\ UNCHANGED <<historical_data, news_data, historical_risk, news_risk,
                   combined_data, final_assessment, report, requests>>

\* the loop is over: lines 105-117
AggregateNews ==
    /\ pc = "news"
    /\ Len(insights) = Len(news_data)
    /\ \E res \in NewsSignals(Locals) :
         IF res.raised
         THEN /\ err' = res.error
              /\ pc' = "failed"
              /\ UNCHANGED news_risk
         ELSE /\ news_risk' = res.value
              /\ pc' = "combine"
              /\ UNCHANGED err
    /\ UNCHANGED <<historical_data, news_data, historical_risk, all_risks,
                   risk_levels, insights, analyses, combined_data,
                   final_assessment, report, requests, inflight, outcomes,
                   returned>>

\* predict_risk, lines 24-28
BuildCombined ==
    /\ pc = "combine"
    /\ combined_data' = CombinedData(historical_risk, news_risk)
    /\ pc' = "assess"
    /\ UNCHANGED <<historical_data, news_data, historical_risk, all_risks,
                   risk_levels, insights, analyses, news_risk,
                   final_assessment, report, err, requests, inflight,
                   outcomes, returned>>

\* generate_risk_assessment builds the prompt and the adapter sends the
\* request (lines 77-102, 30-33)
SendAssessmentRequest ==
    /\ pc = "assess"
    /\ LET req == ChatRequest(AssessmentMessages(combined_data))
       IN  /\ requests' = Append(requests, req)
           /\ inflight' = req
    /\ pc' = "assess_wait"
    /\ UNCHANGED <<historical_data, news_data, historical_risk, all_risks,
                   risk_levels, insights, analyses, news_risk, combined_data,
                   final_assessment, report, err, outcomes, returned>>

\* the request completes; the adapter returns (lines 34-37) and
\* generate_risk_assessment parses the reply (lines 107-122)
AssessmentReply(replies) ==
    /\ pc = "assess_wait"
    /\ \E o \in ServiceOutcomes(replies) :
         LET r == GetLLMResponse(o)
         IN  /\ outcomes' = Append(outcomes, o)
             /\ returned' = Append(returned, r)
             /\ inflight' = None
             /\ IF r.raised
                THEN /\ err' = r.error
                     /\ pc' = "failed"
                     /\ UNCHANGED final_assessment
                ELSE /\ final_assessment' = ParseAssessment(r.value)
                     /\ pc' = "assessed"
                     /\ UNCHANGED err
    /\ UNCHANGED <<historical_data, news_data, historical_risk, all_risks,
                   risk_levels, insights, analyses, news_risk, combined_data,
                   report, requests>>

\* predict_risk, lines 32-39
AssembleReport ==
    /\ pc = "assessed"
    /\ report' \in Reports(final_assessment, historical_risk, news_risk)
    /\ pc' = "done"
    /\ UNCHANGED <<historical_data, news_data, historical_risk, all_risks,
                   risk_levels, insights, analyses, news_risk, combined_data,
                   final_assessment, err, requests, inflight, outcomes,
                   returned>>

NewsReplyStep       == NewsReply(NewsReplies)
AssessmentReplyStep == AssessmentReply(AssessmentReplies)

Next ==
    \/ PredictStart
    \/ SendNewsRequest
    \/ NewsReplyStep
    \/ AggregateNews
    \/ BuildCombined
    \/ SendAssessmentRequest
    \/ AssessmentReplyStep
    \/ AssembleReport

Spec == Init /\ [][Next]_vars

(***************************************************************************)
(* Stand-alone calls of the components                                     *)
(***************************************************************************)
\* _analyze_historical_data(historical_data) is called on its own
InitHistorical ==
    /\ pc = "call_historical"
    /\ historical_data \in Datasets(MaxRecords)
    /\ news_data = <<>>
    /\ Idle

AnalyzeHistoricalCall == HistoricalStep("call_historical", "returned")

SpecHistorical == InitHistorical /\ [][AnalyzeHistoricalCall]_vars

\* what a stubbed llm.analyze_news may return for an article
StubAnalyses ==
    {[detected_risks |-> d, risk_level |-> l, potential_impact |-> <<>>] :
        d \in {<<>>, <<<<"-", " ", "a">>>>}, l \in RiskLevelKeys}

StubScripts(maxItems) ==
    UNION {[1..n -> {a \in StubAnalyses : a.detected_risks = <<>>}]
           \cup [1..n -> {a \in StubAnalyses : a.risk_level = Medium}] :
             n \in 0..maxItems}

\* _analyze_news_data is called on its own, on a Predictor whose llm is a stub
InitAggregate ==
    /\ pc = "call_news"
    /\ historical_data = <<>>
    /\ \E script \in StubScripts(MaxItems) :
         /\ analyses = script
         /\ news_data = [k \in 1..Len(script) |-> <<"n">>]
    /\ historical_risk = None
    /\ all_risks = <<>>
    /\ risk_levels = <<>>
    /\ insights = <<>>
    /\ news_risk = None
    /\ combined_data = None
    /\ final_assessment = None
    /\ report = None
    /\ err = NoValue
    /\ requests = <<>>
    /\ inflight = None
    /\ outcomes = <<>>
    /\ returned = <<>>

\* lines 98-102 over every article
RECURSIVE AccumulateAll(_, _)
AccumulateAll(acc, items) ==
    IF items = <<>> THEN acc
    ELSE AccumulateAll(Accumulate(acc, items[1]), Tail(items))

\* lines 94-117 with the stubbed llm
AnalyzeNewsStubbed ==
    /\ pc = "call_news"
    /\ LET acc == AccumulateAll(Locals, analyses)
       IN  /\ all_risks' = acc.all_risks
           /\ risk_levels' = acc.risk_levels
           /\ insights' = acc.insights
           /\ \E res \in NewsSignals(acc) :
                IF res.raised
                THEN /\ err' = res.error
                     /\ pc' = "failed"
                     /\ UNCHANGED news_risk
                ELSE /\ news_risk' = res.value
                     /\ pc' = "returned"
                     /\ UNCHANGED err
    /\ UNCHANGED <<historical_data, news_data, historical_risk, analyses,
                   combined_data, final_assessment, report, requests,
                   inflight, outcomes, returned>>

SpecAggregate == InitAggregate /\ [][AnalyzeNewsStubbed]_vars

\* generate_risk_assessment(data) is called on its own
InitAssess ==
    /\ pc = "assess"
    /\ historical_data = <<>>
    /\ news_data = <<>>
    /\ historical_risk = None
    /\ all_risks = <<>>
    /\ risk_levels = <<>>
    /\ insights = <<>>
    /\ analyses = <<>>
    /\ news_risk = None
    /\ combined_data \in
         {[historical_risk |-> h, news_risk |-> Medium, detected_risks |-> d] :
            h \in {Low, High}, d \in {<<>>, <<FrequentDelays>>}}
    /\ final_assessment = None
    /\ report = None
    /\ err = NoValue
    /\ requests = <<>>
    /\ inflight = None
    /\ outcomes = <<>>
    /\ returned = <<>>

AssessmentReplyFragments == AssessmentReply(FragmentTexts(MaxFragments))

NextAssess ==
    \/ SendAssessmentRequest
    \/ AssessmentReplyFragments

SpecAssess == InitAssess /\ [][NextAssess]_vars

(***************************************************************************)
(* Properties                                                              *)
(***************************************************************************)
\* sub occurs in s
Contains(s, sub) ==
    \E p \in 1..(Len(s) - Len(sub) + 1) : MatchLit(s, p, sub, FALSE)

\* characters of the texts handled here
TextChars == WordChars \cup SpaceChars \cup {"-", ":", ".", ")", "%", ","}

NumNews == Len(news_data)

\* C1: for a non-empty dataset with d delayed rows out of n,
\* _analyze_historical_data returns High when d/n is in (0.20, 1], Medium
\* when d/n is in (0.10, 0.20] and Low when d/n is in [0, 0.10]; d/n exactly
\* 0.10 gives Low and exactly 0.20 gives Medium.  (Rates are compared in
\* hundredths: d/n > 0.20 iff 100 d > 20 n.)
C1_RiskLevelByDelayRate ==
    (pc = "returned" /\ historical_data # <<>>) =>
        LET d == CountDelayed(historical_data)
            n == Len(historical_data)
            level == historical_risk.risk_level
        IN  /\ (100 * d > 20 * n /\ d <= n) => level = High
            /\ (100 * d > 10 * n /\ 100 * d <= 20 * n) => level = Medium
            /\ (0 <= d /\ 100 * d <= 10 * n) => level = Low
            /\ 100 * d = 10 * n => level = Low
            /\ 100 * d = 20 * n => level = Medium

C1_Witness ==
    /\ pc = "returned"
    /\ Len(historical_data) = 10
    /\ CountDelayed(historical_data) = 2
    /\ historical_risk.risk_level = Medium

\* C2: every call of _get_llm_response returns a string and never raises:
\* the raw reply text when the service call succeeds, the empty string when
\* it fails, so the parsers always receive a string.
C2_AdapterReturnsString ==
    /\ Len(returned) = Len(outcomes)
    /\ \A k \in DOMAIN returned :
          /\ ~returned[k].raised
          /\ returned[k].value \in Seq(TextChars)
          /\ returned[k].value =
                (IF outcomes[k].ok THEN outcomes[k].content ELSE <<>>)
    /\ err \notin ServiceFailures

C2_Witness ==
    /\ pc = "done"
    /\ NumNews = 2
    /\ ~outcomes[1].ok
    /\ outcomes[2].ok
    /\ ~outcomes[3].ok
    /\ returned[1].value = <<>>
    /\ returned[2].value # <<>>

AssessmentFields ==
    {"overall_risk_level", "assessment", "risk_factors", "recommendations"}

\* C3: for every reply the adapter returns, generate_risk_assessment returns
\* a result with the four fields and never fails; the empty reply yields
\* overall_risk_level "Medium", assessment "", risk_factors [] and
\* recommendations [].
C3_AssessmentTotal ==
    /\ err = NoValue
    /\ pc # "failed"
    /\ returned # <<>> =>
          /\ pc = "assessed"
          /\ DOMAIN final_assessment = AssessmentFields
          /\ returned[1].value = <<>> =>
                final_assessment = [overall_risk_level |-> Medium,
                                    assessment         |-> <<>>,
                                    risk_factors       |-> <<>>,
                                    recommendations    |-> <<>>]

C3_Witness ==
    /\ pc = "assessed"
    /\ ~outcomes[1].ok
    /\ returned[1].value = <<>>
    /\ final_assessment.overall_risk_level = Medium
    /\ final_assessment.risk_factors = <<>>

\* every article's reply has come back, and each was the empty string
AllNewsRepliesEmpty ==
    /\ NumNews >= 1
    /\ Len(returned) >= NumNews
    /\ \A k \in 1..NumNews : returned[k].value = <<>>

\* C4: if the adapter returns the empty string for every one of n >= 1
\* headlines, _analyze_news_data does not fail and returns a well-formed
\* signal: no detected risks, the level computed from the n defaulted
\* per-item levels (Medium each, so Medium), and n empty insights.
C4_AllRepliesEmpty ==
    AllNewsRepliesEmpty =>
        /\ pc # "failed"
        /\ err = NoValue
        /\ \A k \in 1..NumNews : analyses[k].risk_level = Medium
        /\ pc # "news" =>
              news_risk = [risk_level     |-> Medium,
                           detected_risks |-> <<>>,
                           insights       |-> [k \in 1..NumNews |-> <<>>]]

C4_Witness ==
    /\ AllNewsRepliesEmpty
    /\ NumNews = 2
    /\ pc = "done"
    /\ news_risk.risk_level = Medium
    /\ report.news_insights = <<<<>>, <<>>>>

\* the per-item levels of the analyses
ItemLevels == [k \in DOMAIN analyses |-> analyses[k].risk_level]

\* C5: the news aggregation maps Low, Medium, High to 1, 2, 3, averages over
\* all items and returns High when the average is > 2, Medium when it is
\* > 1.5 and <= 2, Low otherwise; [Low, Low, High] gives Medium.  (Averages
\* are compared in halves: avg > 1.5 iff 2 total > 3 n.)
C5_AverageSeverity ==
    pc = "returned" =>
        LET n == Len(analyses)
            weight(l) == IF l = Low THEN 1 ELSE IF l = Medium THEN 2 ELSE 3
            total == SumSeq([k \in 1..n |-> weight(ItemLevels[k])])
            level == news_risk.risk_level
        IN  /\ risk_levels = [k \in 1..n |-> weight(ItemLevels[k])]
            /\ 2 * total > 4 * n => level = High
            /\ (2 * total > 3 * n /\ 2 * total <= 4 * n) => level = Medium
            /\ 2 * total <= 3 * n => level = Low
            /\ ItemLevels = <<Low, Low, High>> => level = Medium

C5_Witness ==
    /\ pc = "returned"
    /\ ItemLevels = <<Low, Low, High>>
    /\ news_risk.risk_level = Medium

\* C6: with an empty headline sequence the news analysis fails with the
\* dedicated precondition error NoNewsItemsError, raised by predict_risk's
\* validation before it delegates to the analyzers; no signal or report is
\* returned.
C6_EmptyNewsRejected ==
    (news_data = <<>> /\ historical_data # <<>> /\ pc \notin {"start", "news"})
        => /\ pc = "failed"
           /\ err = "NoNewsItemsError"
           /\ historical_risk = None
           /\ news_risk = None
           /\ report = None

\* C7: a predict_risk run over n >= 1 headlines issues exactly n + 1
\* requests, one at a time: one per headline in input order, then one
\* synthesis request that starts only after every headline request has
\* returned; news_insights[i] is the raw reply to headline i.
C7_SequentialRequests ==
    /\ Len(requests) <= NumNews + 1
    /\ Len(requests) = Len(outcomes) + (IF inflight = None THEN 0 ELSE 1)
    /\ inflight # None => inflight = requests[Len(requests)]
    /\ \A k \in DOMAIN requests :
          IF k <= NumNews
          THEN requests[k] = ChatRequest(NewsMessages(news_data[k]))
          ELSE /\ requests[k].messages[2].content.template = "assessment"
               /\ Len(outcomes) >= NumNews
    /\ pc = "done" =>
          /\ NumNews >= 1
          /\ Len(requests) = NumNews + 1
          /\ Len(report.news_insights) = NumNews
          /\ \A i \in 1..NumNews :
                report.news_insights[i] = returned[i].value

C7_Witness ==
    /\ pc = "done"
    /\ NumNews = 2
    /\ Len(requests) = 3
    /\ outcomes[1].ok
    /\ outcomes[2].ok
    /\ returned[1].value # returned[2].value
    /\ report.news_insights = <<returned[1].value, returned[2].value>>

\* delay_rate = 0.25, one headline, and its reply has no bullet line
QuarterDelayedOneHeadline ==
    /\ pc = "done"
    /\ 4 * CountDelayed(historical_data) = Len(historical_data)
    /\ NumNews = 1
    /\ outcomes[1].ok
    /\ BulletLines(SplitLines(returned[1].value)) = <<>>

QuarterPercent ==
    <<"2","5",".","0","0","%">>

\* C8 as stated: end to end, for delay_rate = 0.25 and one headline whose
\* reply has no bullet lines, the report's historical_insights contains
\* "frequent delays" and its news_insights contains the raw reply.
C8_InsightsNameFrequentDelays ==
    QuarterDelayedOneHeadline =>
        /\ \E k \in DOMAIN report.historical_insights :
              Contains(report.historical_insights[k], FrequentDelays)
        /\ returned[1].value \in Elems(report.news_insights)

\* C8 amended: for delay_rate = 0.25 and one headline whose reply has no
\* bullet lines, historical_insights is the four formatted statistics, the
\* first being "Historical delay rate: 25.00%", and none of them contains
\* "frequent delays"; that factor is in the HistoricalRiskSignal's
\* risk_factors and in the detected_risks sent to the synthesizer; and
\* news_insights contains the raw reply.
C8_InsightsAreStatistics ==
    QuarterDelayedOneHeadline =>
        /\ Len(report.historical_insights) = 4
        /\ report.historical_insights[1] = DelayRateLabel \o QuarterPercent
        /\ \A k \in DOMAIN report.historical_insights :
              ~Contains(report.historical_insights[k], FrequentDelays)
        /\ FrequentDelays \in Elems(historical_risk.risk_factors)
        /\ FrequentDelays \in Elems(combined_data.detected_risks)
        /\ requests[2].messages[2].content.detected_risks
              = JoinComma(combined_data.detected_risks)
        /\ returned[1].value \in Elems(report.news_insights)

C8_Witness ==
    /\ QuarterDelayedOneHeadline
    /\ returned[1].value # <<>>
    /\ report.news_insights = <<returned[1].value>>
    /\ report.historical_insights[1] = DelayRateLabel \o QuarterPercent

\* C9: predict_risk assembles the report without altering its sources:
\* risk_factors is the synthesizer's risk_factors with duplicates removed
\* (same strings, each once); overall_risk_level, assessment and
\* recommendations are the synthesizer's; historical_insights and
\* news_insights are the two signals' insights.
C9_ReportPassesThrough ==
    pc = "done" =>
        /\ NoDup(report.risk_factors)
        /\ Elems(report.risk_factors) = Elems(final_assessment.risk_factors)
        /\ report.overall_risk_level = final_assessment.overall_risk_level
        /\ report.assessment = final_assessment.assessment
        /\ report.recommendations = final_assessment.recommendations
        /\ report.historical_insights = historical_risk.insights
        /\ report.news_insights = news_risk.insights

C9_Witness ==
    /\ pc = "done"
    /\ Len(final_assessment.risk_factors) = 2
    /\ Len(report.risk_factors) = 1
    /\ NumNews = 2

\* C10: in every report returned by predict_risk, overall_risk_level is one
\* of Low, Medium, High (Medium when the reply has no "Overall Risk Level"
\* label).
C10_OverallLevelInScale ==
    pc = "done" => report.overall_risk_level \in {Low, Medium, High}

\* the bullet texts of the articles' replies: the stripped form of every line
\* of a reply that, once stripped, begins with '-'
ReportedRisks ==
    {Strip(line) :
        line \in {l \in UNION {Elems(SplitLines(returned[k].value)) :
                                 k \in 1..NumNews} :
                    Strip(l) # <<>> /\ Head(Strip(l)) = "-"}}

\* C11: the detected_risks of the NewsRiskSignal is the deduplicated union of
\* the per-item detected risks: a string is in it exactly when some item's
\* reply has a line that, stripped, begins with '-' (the string being that
\* stripped line), and no string occurs in it twice, even when two items
\* report the same text.
C11_DetectedRisksDeduplicated ==
    news_risk # None =>
        /\ Elems(news_risk.detected_risks) = ReportedRisks
        /\ NoDup(news_risk.detected_risks)
        /\ Elems(news_risk.detected_risks)
              = UNION {Elems(analyses[k].detected_risks) : k \in 1..NumNews}

C11_Witness ==
    /\ pc = "done"
    /\ NumNews = 2
    /\ Len(analyses[1].detected_risks) = 1
    /\ Len(analyses[2].detected_risks) = 2
    /\ analyses[1].detected_risks[1] \in Elems(analyses[2].detected_risks)
    /\ Len(all_risks) = 3
    /\ Len(news_risk.detected_risks) = 2

\* C12: for every non-empty headline sequence and every combination of
\* replies and failures, the NewsRiskSignal's risk_level, and so the
\* news_risk sent to the synthesizer, is Medium: each per-item level is
\* Medium, and High and Low are never produced through predict_risk.
C12_NewsRiskAlwaysMedium ==
    /\ \A k \in DOMAIN analyses : analyses[k].risk_level = Medium
    /\ \A k \in DOMAIN risk_levels : risk_levels[k] = 2
    /\ news_risk # None => news_risk.risk_level = Medium
    /\ combined_data # None => combined_data.news_risk = Medium
    /\ Len(requests) = NumNews + 1 =>
          requests[NumNews + 1].messages[2].content.news_risk = Medium

C12_Witness ==
    /\ pc = "done"
    /\ NumNews = 2
    /\ ~outcomes[1].ok
    /\ outcomes[2].ok
    /\ analyses[2].detected_risks # <<>>
    /\ news_risk.risk_level = Medium
    /\ requests[3].messages[2].content.news_risk = Medium

====
